---- MODULE Spec2Model ----
(***************************************************************************)
(* A model of resp_protein_toolkit/protein_ml_models/bytenet_antibody_only *)
(* (ConvLayer, ByteNetBlock, ByteNetPairedSeqs).                           *)
(*                                                                         *)
(* Three specifications share the module:                                  *)
(*   Spec      the life of one ByteNetPairedSeqs object: __init__, then    *)
(*             any sequence of train / forward / predict calls;            *)
(*   SpecDil   the dilation computation of __init__ (lines 194-195) as a   *)
(*             pure function of (n_layers, dil_factor);                    *)
(*   SpecConv  the sequence length through ConvLayer and ByteNetBlock.     *)
(*                                                                         *)
(* Tensors are modelled by their shapes; the numeric content of the        *)
(* encoder is the tensor runtime's and is not modelled.  Non-integer       *)
(* numbers (dil_factor, a dilation 2 ** negative) are exact rationals      *)
(* [num, den].                                                             *)
(***************************************************************************)
EXTENDS Integers, Sequences, FiniteSets, TLC

VARIABLES
    \* ---- Spec: one ByteNetPairedSeqs object and its caller
    pc,               \* "new" | "ready" (constructed) | "failed" (__init__ raised)
    args,             \* the arguments of the __init__ call
    error,            \* the exception __init__ raised, "none" if it returned
    objective,        \* self.objective
    llgp,             \* self.llgp
    dropout,          \* self.dropout, in tenths
    antibody_layers,  \* self.antibody_layers: the dilation of each ByteNetBlock
    out_layer,        \* self.out_layer
    built,            \* the layer attributes __init__ has assigned
    training,         \* self.training (torch.nn.Module)
    call,             \* the last train / forward / predict call and its result
    \* ---- SpecDil
    dpc,              \* "start" | "log2" | "done" | "failed"
    n_layers,
    dil_factor,
    dil_log2,
    dilations,
    derror,
    \* ---- SpecConv
    cpc,              \* "start" | "init" | "conv" | "block"
    kernel_size,
    dilation,
    padding,
    seq_len,          \* L of the input (N, L, channels)
    conv_out,         \* result of ConvLayer.forward: [error, len]
    block_out         \* result of ByteNetBlock.forward: [error, len]

mainVars == <<pc, args, error, objective, llgp, dropout, antibody_layers,
              out_layer, built, training, call>>
dilVars  == <<dpc, n_layers, dil_factor, dil_log2, dilations, derror>>
convVars == <<cpc, kernel_size, dilation, padding, seq_len, conv_out, block_out>>
vars     == <<mainVars, dilVars, convVars>>

(***************************************************************************)
(* Bounds                                                                  *)
(***************************************************************************)
\* SpecDil: n_layers in 0..SchedMaxLayers, dil_factor = num/den with
\* num in -1..SchedMaxNum and den in 1..SchedMaxDen
SchedMaxLayers == 7
SchedMaxNum == 17
SchedMaxDen == 8
\* Spec: the same arguments, over smaller sets
MaxLayers == 2
MaxDilNum == 4
MaxDilDen == 3
MaxCategories == 3
MaxDropout == 1
MaxBatch == 2
\* SpecConv
MaxKernel == 4
MaxDilation == 4
MaxLen == 4

(***************************************************************************)
(* Numbers                                                                 *)
(***************************************************************************)
Rat(n, d) == [num |-> n, den |-> d]

\* floor(log2(n/d)) for n, d > 0: the e with 2^e <= n/d < 2^(e+1)
RECURSIVE FloorLog2(_, _)
FloorLog2(n, d) ==
    IF n >= d
    THEN IF n >= 2 * d THEN 1 + FloorLog2(n, 2 * d) ELSE 0
    ELSE FloorLog2(2 * n, d) - 1

\* n/d is a power of two (its log2 is an integer)
RECURSIVE ExactLog2(_, _)
ExactLog2(n, d) ==
    IF n = d THEN TRUE
    ELSE IF n > d THEN (IF n >= 2 * d THEN ExactLog2(n, 2 * d) ELSE FALSE)
    ELSE ExactLog2(2 * n, d)

\* int(np.log2(x)): np.log2 gives -inf at 0 and nan below 0 (a warning, no
\* exception); int() raises OverflowError on an infinity and ValueError on a
\* nan, and truncates a finite value towards zero.
IntLog2(x) ==
    IF x.num = 0 THEN [err |-> "OverflowError", val |-> 0]
    ELSE IF x.num < 0 THEN [err |-> "ValueError", val |-> 0]
    ELSE LET f == FloorLog2(x.num, x.den)
         IN  [err |-> "none",
              val |-> IF f >= 0 \/ ExactLog2(x.num, x.den) THEN f ELSE f + 1]

\* Python's n % p for n >= 0: the result has the sign of p
PyMod(n, p) == IF p > 0 THEN n % p ELSE -((-n) % (-p))

\* Python's 2 ** e: an int for e >= 0, the float 2^e for e < 0
Pow2(e) == IF e >= 0 THEN Rat(2 ^ e, 1) ELSE Rat(1, 2 ^ (-e))

(***************************************************************************)
(* The dilation computation of ByteNetPairedSeqs.__init__ (lines 194-195)  *)
(***************************************************************************)
\* a variant of DilLog2 with the period one too long: + 2 for + 1
DilLog2Off2(x) ==
    LET r == IntLog2(x) IN [err |-> r.err, val |-> r.val + 2]

\* dil_log2 = int(np.log2(dil_factor)) + 1
DilLog2(x) ==
    LET r == IntLog2(x) IN [err |-> r.err, val |-> r.val + 1]

\* dilations = [2 ** (n % dil_log2) for n in range(n_layers)]
Dilations(nl, p) ==
    IF nl > 0 /\ p = 0
    THEN [err |-> "ZeroDivisionError", val |-> << >>]
    ELSE [err |-> "none",
          val |-> [i \in 1..nl |-> Pow2(PyMod(i - 1, p))]]

\* both lines: the error of the first that raises, else the list
DilationSchedule(nl, x) ==
    LET p == DilLog2(x)
    IN  IF p.err # "none" THEN [err |-> p.err, val |-> << >>]
        ELSE Dilations(nl, p.val)

(***************************************************************************)
(* SpecDil: the dilation computation on its own                            *)
(***************************************************************************)
MainIdle ==
    /\ pc = "idle"
    /\ args = [objective |-> "regression", num_predicted_categories |-> 1,
               llgp |-> FALSE, dropout |-> 0, n_layers |-> 0,
               dil_factor |-> Rat(1, 1)]
    /\ error = "none"
    /\ objective = "unset"
    /\ llgp = FALSE
    /\ dropout = 0
    /\ antibody_layers = << >>
    /\ out_layer = [kind |-> "unset", width |-> 0, likelihood |-> "unset"]
    /\ built = {}
    /\ training = FALSE
    /\ call = [kind |-> "none"]

DilIdle ==
    /\ dpc = "idle"
    /\ n_layers = 0
    /\ dil_factor = Rat(1, 1)
    /\ dil_log2 = 0
    /\ dilations = << >>
    /\ derror = "none"

ConvIdle ==
    /\ cpc = "idle"
    /\ kernel_size = 1
    /\ dilation = 1
    /\ padding = 0
    /\ seq_len = 1
    /\ conv_out = [error |-> "none", len |-> 0]
    /\ block_out = [error |-> "none", len |-> 0]

InitDil ==
    /\ MainIdle
    /\ ConvIdle
    /\ dpc = "start"
    /\ n_layers \in 0..SchedMaxLayers
    /\ dil_factor \in {Rat(n, d) : n \in -1..SchedMaxNum, d \in 1..SchedMaxDen}
    /\ dil_log2 = 0
    /\ dilations = << >>
    /\ derror = "none"

\* line 194
DilLog2Step ==
    /\ dpc = "start"
    /\ LET r == DilLog2(dil_factor)
       IN  IF r.err # "none"
           THEN /\ dpc' = "failed"
                /\ derror' = r.err
                /\ UNCHANGED dil_log2
           ELSE /\ dpc' = "log2"
                /\ dil_log2' = r.val
                /\ UNCHANGED derror
    /\ UNCHANGED <<n_layers, dil_factor, dilations, mainVars, convVars>>

\* line 195
DilationsStep ==
    /\ dpc = "log2"
    /\ LET r == Dilations(n_layers, dil_log2)
       IN  IF r.err # "none"
           THEN /\ dpc' = "failed"
                /\ derror' = r.err
                /\ UNCHANGED dilations
           ELSE /\ dpc' = "done"
                /\ dilations' = r.val
                /\ UNCHANGED derror
    /\ UNCHANGED <<n_layers, dil_factor, dil_log2, mainVars, convVars>>

NextDil == DilLog2Step \/ DilationsStep

SpecDil == InitDil /\ [][NextDil]_vars

\* helpers of the properties
RECURSIVE IsPowerOfTwo(_)
IsPowerOfTwo(x) ==
    x = 1 \/ (x > 1 /\ x % 2 = 0 /\ IsPowerOfTwo(x \div 2))

IsIntegerAtLeastOne(x) == x.num >= x.den /\ x.num % x.den = 0

RatLeq(a, b) == a.num * b.den <= b.num * a.den

C5_BelowOneFails ==
    (dil_factor.num < dil_factor.den) => dpc # "done"

(***************************************************************************)
(* ByteNetPairedSeqs.__init__                                              *)
(***************************************************************************)
Objectives == {"regression", "binary_classifier", "multiclass"}

\* out_targets of the VanillaRFFLayer call (line 227)
OutTargets == 1

\* a variant of Validate comparing with < 2 where line 175 has <= 2
ValidateBelowTwo(obj, ncat) ==
    IF obj = "multiclass"
    THEN IF ncat < 2
         THEN [err |-> "RuntimeError: num_predicted_categories",
               nclasses |-> ncat, likelihood |-> "multiclass"]
         ELSE [err |-> "none", nclasses |-> ncat, likelihood |-> "multiclass"]
    ELSE IF obj = "binary_classifier"
    THEN [err |-> "none", nclasses |-> 1, likelihood |-> "binary_logistic"]
    ELSE IF obj = "regression"
    THEN [err |-> "none", nclasses |-> 1, likelihood |-> "Gaussian"]
    ELSE [err |-> "RuntimeError: objective", nclasses |-> 0,
          likelihood |-> "unset"]

\* a variant of Validate without the final else of lines 186-187
ValidateNoElse(obj, ncat) ==
    IF obj = "multiclass"
    THEN IF ncat <= 2
         THEN [err |-> "RuntimeError: num_predicted_categories",
               nclasses |-> ncat, likelihood |-> "multiclass"]
         ELSE [err |-> "none", nclasses |-> ncat, likelihood |-> "multiclass"]
    ELSE IF obj = "binary_classifier"
    THEN [err |-> "none", nclasses |-> 1, likelihood |-> "binary_logistic"]
    ELSE [err |-> "none", nclasses |-> 1, likelihood |-> "Gaussian"]

\* lines 171-187: the objective / category-count validation, with the
\* nclasses and likelihood it chooses
Validate(obj, ncat) ==
    IF obj = "multiclass"
    THEN IF ncat <= 2
         THEN [err |-> "RuntimeError: num_predicted_categories",
               nclasses |-> ncat, likelihood |-> "multiclass"]
         ELSE [err |-> "none", nclasses |-> ncat, likelihood |-> "multiclass"]
    ELSE IF obj = "binary_classifier"
    THEN [err |-> "none", nclasses |-> 1, likelihood |-> "binary_logistic"]
    ELSE IF obj = "regression"
    THEN [err |-> "none", nclasses |-> 1, likelihood |-> "Gaussian"]
    ELSE [err |-> "RuntimeError: objective", nclasses |-> 0,
          likelihood |-> "unset"]

\* the GP head collaborator (..classic_rffs.VanillaRFFLayer): its output
\* has out_targets columns
VanillaRFFLayer(out_targets, likelihood) ==
    [kind |-> "gp", width |-> out_targets, likelihood |-> likelihood]

\* torch.nn.Linear(rep_dim, nclasses)
Linear(nclasses) ==
    [kind |-> "linear", width |-> nclasses, likelihood |-> "unset"]

\* lines 225-234
OutLayer(gp, nclasses, likelihood) ==
    IF gp THEN VanillaRFFLayer(OutTargets, likelihood) ELSE Linear(nclasses)

\* the layer attributes lines 200-234 assign
LayerAttributes ==
    {"adjuster", "antigen_adjuster", "antibody_layers", "antigen_layers",
     "down_adjuster", "final_lnorm", "out_layer"}

NoCall ==
    [kind |-> "none", batch |-> 0, update_precision |-> FALSE,
     get_var |-> FALSE, was_training |-> FALSE, dropped |-> << >>,
     head |-> [called |-> FALSE, up_passed |-> FALSE, up |-> FALSE,
               gv |-> FALSE],
     branch |-> "none", ret |-> "none", shape |-> << >>, error |-> "none"]

ArgSets ==
    [objective : Objectives \cup {"not_a_real_objective"},
     num_predicted_categories : 1..MaxCategories,
     llgp : BOOLEAN,
     dropout : 0..MaxDropout,
     n_layers : 0..MaxLayers,
     dil_factor : {Rat(n, d) : n \in -1..MaxDilNum, d \in 1..MaxDilDen}]

Init ==
    /\ DilIdle
    /\ ConvIdle
    /\ pc = "new"
    /\ args \in ArgSets
    /\ error = "none"
    /\ objective = "unset"
    /\ llgp = FALSE
    /\ dropout = 0
    /\ antibody_layers = << >>
    /\ out_layer = [kind |-> "unset", width |-> 0, likelihood |-> "unset"]
    /\ built = {}
    /\ training = FALSE
    /\ call = NoCall

\* __init__ (lines 163-237) on the arguments args
Construct ==
    /\ pc = "new"
    /\ LET v == Validate(args.objective, args.num_predicted_categories)
           s == DilationSchedule(args.n_layers, args.dil_factor)
       IN  /\ training' = TRUE                \* super().__init__(), line 166
           /\ objective' = args.objective     \* line 171
           /\ IF v.err # "none"
              THEN /\ pc' = "failed"
                   /\ error' = v.err
                   /\ UNCHANGED <<llgp, dropout, antibody_layers, out_layer,
                                  built>>
              ELSE IF s.err # "none"
              THEN /\ pc' = "failed"
                   /\ error' = s.err
                   /\ UNCHANGED <<llgp, dropout, antibody_layers, out_layer,
                                  built>>
              ELSE /\ pc' = "ready"
                   /\ antibody_layers' = s.val
                   /\ out_layer' = OutLayer(args.llgp, v.nclasses, v.likelihood)
                   /\ built' = LayerAttributes
                   /\ dropout' = args.dropout
                   /\ llgp' = args.llgp
                   /\ UNCHANGED error
    /\ UNCHANGED <<args, call, dilVars, convVars>>

(***************************************************************************)
(* ByteNetPairedSeqs.forward and predict                                   *)
(***************************************************************************)
\* a variant of DropoutApplied that does not read self.training
DropoutIgnoringMode(rate, train) == rate > 0

\* line 264: if self.dropout > 0.0 and self.training
DropoutApplied(rate, train) == rate > 0 /\ train

\* a variant of VariancePath outside the regression branch
VariancePathAnyObjective(obj, gp, get_var) == gp /\ get_var

\* lines 270-272: the branch that returns (preds, var)
VariancePath(obj, gp, get_var) == obj = "regression" /\ gp /\ get_var

\* a variant of HeadArgs passing update_precision on the variance path too
HeadArgsAlwaysUpdate(obj, gp, update_precision, get_var) ==
    IF ~gp
    THEN [called |-> TRUE, up_passed |-> FALSE, up |-> FALSE, gv |-> FALSE]
    ELSE IF VariancePath(obj, gp, get_var)
    THEN [called |-> TRUE, up_passed |-> TRUE, up |-> update_precision,
          gv |-> get_var]
    ELSE [called |-> TRUE, up_passed |-> TRUE, up |-> update_precision,
          gv |-> FALSE]

\* lines 273, 275, 277 (281, 283, 287, 289): the arguments self.out_layer is
\* called with.  up_passed: update_precision is among them; up: its value
\* (the head's default, False, when it is not passed); gv: get_var = True is.
HeadArgs(obj, gp, update_precision, get_var) ==
    IF ~gp
    THEN [called |-> TRUE, up_passed |-> FALSE, up |-> FALSE, gv |-> FALSE]
    ELSE IF VariancePath(obj, gp, get_var)
    THEN [called |-> TRUE, up_passed |-> FALSE, up |-> FALSE, gv |-> get_var]
    ELSE [called |-> TRUE, up_passed |-> TRUE, up |-> update_precision,
          gv |-> FALSE]

\* tensor.squeeze(1): drops axis 1 when its size is 1
Squeeze1(shape) ==
    IF Len(shape) >= 2 /\ shape[2] = 1 THEN <<shape[1]>> ELSE shape

\* forward (lines 240-294) on a batch of `batch` sequences, with self.training
\* = train: what it returns or raises, and what it asked of the head
ForwardResult(batch, update_precision, get_var, train) ==
    LET dropped == [i \in 1..Len(antibody_layers) |->
                        DropoutApplied(dropout, train)]
        preds == <<batch, out_layer.width>>
        base == [NoCall EXCEPT !.batch = batch,
                               !.update_precision = update_precision,
                               !.get_var = get_var,
                               !.was_training = train,
                               !.dropped = dropped]
    IN  IF objective \in Objectives
        THEN [base EXCEPT
                !.head = HeadArgs(objective, llgp, update_precision, get_var),
                !.branch = objective,
                !.ret = IF VariancePath(objective, llgp, get_var)
                        THEN "pair" ELSE "single",
                !.shape = IF objective = "multiclass"
                          THEN preds ELSE Squeeze1(preds)]
        ELSE [base EXCEPT !.branch = "fallthrough",
                          !.error = "RuntimeError: invalid objective"]

Forward ==
    /\ pc = "ready"
    /\ \E batch \in 1..MaxBatch, update_precision \in BOOLEAN,
          get_var \in BOOLEAN :
          call' = [ForwardResult(batch, update_precision, get_var, training)
                     EXCEPT !.kind = "forward"]
    /\ UNCHANGED <<pc, args, error, objective, llgp, dropout, antibody_layers,
                   out_layer, built, training, dilVars, convVars>>

\* a variant of ModeAfterEval: predict without the self.eval() call
ModeKept(mode) == mode

\* self.eval() (line 324) is self.train(False)
ModeAfterEval(mode) == FALSE

\* line 328
PredictWantsVar(obj, gp, get_var) == gp /\ get_var /\ obj = "regression"

\* predict (lines 300-331)
PredictResult(batch, get_var, train) ==
    IF PredictWantsVar(objective, llgp, get_var)
    THEN LET r == ForwardResult(batch, FALSE, get_var, train)     \* line 329
         IN  IF r.error = "none" /\ r.ret # "pair"
             THEN [r EXCEPT !.error = "TypeError: cannot unpack", !.ret = "none"]
             ELSE r
    ELSE LET r == ForwardResult(batch, FALSE, FALSE, train)       \* line 331
         IN  IF r.error = "none" /\ r.ret = "pair"
             THEN [r EXCEPT !.error = "AttributeError: tuple has no cpu",
                            !.ret = "none"]
             ELSE r

Predict ==
    /\ pc = "ready"
    /\ \E batch \in 1..MaxBatch, get_var \in BOOLEAN :
          LET mode == ModeAfterEval(training)
          IN  /\ training' = mode
              /\ call' = [PredictResult(batch, get_var, mode)
                            EXCEPT !.kind = "predict",
                                   !.get_var = get_var,
                                   !.was_training = training]
    /\ UNCHANGED <<pc, args, error, objective, llgp, dropout, antibody_layers,
                   out_layer, built, dilVars, convVars>>

\* torch.nn.Module.train(mode), which the class inherits: the caller's way
\* to set or clear the training flag
Train ==
    /\ pc = "ready"
    /\ \E mode \in BOOLEAN :
          /\ training' = mode
          /\ call' = [NoCall EXCEPT !.kind = "train", !.was_training = training]
    /\ UNCHANGED <<pc, args, error, objective, llgp, dropout, antibody_layers,
                   out_layer, built, dilVars, convVars>>

Next == Construct \/ Forward \/ Predict \/ Train

Spec == Init /\ [][Next]_vars

(***************************************************************************)
(* Properties of Spec                                                      *)
(***************************************************************************)
IsConfigError(e) ==
    e \in {"RuntimeError: num_predicted_categories", "RuntimeError: objective"}

IsModelCall == call.kind \in {"forward", "predict"}

\* C1: __init__ raises its configuration error (a RuntimeError of lines
\* 176/187), with no layer attribute assigned yet, exactly when objective is
\* not one of the three names or it is "multiclass" with
\* num_predicted_categories <= 2; for every other pair the validation raises
\* nothing (regression and binary_classifier with any category count).
C1_ConstructorValidation ==
    pc \in {"ready", "failed"} =>
        LET obj == args.objective
            ncat == args.num_predicted_categories
        IN  /\ IsConfigError(error) <=>
                  (obj \notin Objectives \/ (obj = "multiclass" /\ ncat <= 2))
            /\ IsConfigError(error) => pc = "failed" /\ built = {}
            /\ error = "RuntimeError: objective" <=> obj \notin Objectives
            /\ pc = "ready" => built = LayerAttributes /\ objective = obj

C1_Witness ==
    /\ pc = "failed"
    /\ args.objective = "multiclass"
    /\ args.num_predicted_categories = 2
    /\ error = "RuntimeError: num_predicted_categories"
    /\ built = {}

\* C2: forward and predict return a (prediction, variance) pair if and only
\* if llgp, get_var and objective = "regression"; in every other combination
\* they return a single prediction and raise nothing.
C2_PairIffVariance ==
    (pc = "ready" /\ IsModelCall) =>
        /\ call.error = "none"
        /\ call.ret \in {"single", "pair"}
        /\ call.ret = "pair" <=>
              (llgp /\ call.get_var /\ objective = "regression")

C2_Witness ==
    /\ pc = "ready"
    /\ call.kind = "predict"
    /\ call.get_var
    /\ call.ret = "pair"

\* C3 as stated: for objective "multiclass" with c > 2 categories the output
\* head has width c and forward returns a prediction of shape (batch, c),
\* with llgp False and with llgp True.
C3_MulticlassWidth ==
    (pc = "ready" /\ objective = "multiclass") =>
        /\ out_layer.width = args.num_predicted_categories
        /\ call.kind = "forward" =>
              call.shape = <<call.batch, args.num_predicted_categories>>

\* C7: in a forward pass dropout follows a residual block if and only if
\* the training flag is set and the dropout rate is > 0; no predict call
\* applies dropout, whatever the flag was before it and whatever the rate.
C7_Dropout ==
    (pc = "ready" /\ IsModelCall) =>
        /\ Len(call.dropped) = Len(antibody_layers)
        /\ \A i \in 1..Len(call.dropped) :
              /\ call.kind = "forward" =>
                    (call.dropped[i] <=> (call.was_training /\ dropout > 0))
              /\ call.kind = "predict" => ~call.dropped[i]

C7_Witness ==
    /\ pc = "ready"
    /\ call.kind = "predict"
    /\ call.was_training
    /\ dropout > 0
    /\ Len(call.dropped) >= 1
    /\ ~call.dropped[1]

\* C8: a model whose construction succeeded holds one of the three
\* objectives, and every forward (direct or through predict) returns through
\* the branch of that objective; the final RuntimeError is never raised.
C8_NoFallthrough ==
    pc = "ready" =>
        /\ objective \in Objectives
        /\ IsModelCall =>
              /\ call.branch = objective
              /\ call.ret \in {"single", "pair"}
              /\ call.error # "RuntimeError: invalid objective"

C8_Witness ==
    /\ pc = "ready"
    /\ call.kind = "forward"
    /\ call.branch = "multiclass"
    /\ llgp
    /\ call.update_precision
    /\ call.get_var

\* C9: every predict leaves the training flag False, whatever it was; forward
\* never changes the flag, so a forward run while the flag is False (after a
\* predict, until train is called) applies no dropout.
C9_PredictLeavesEval ==
    [][/\ call'.kind = "predict" => ~training'
       /\ call'.kind = "forward" =>
             /\ training' = training
             /\ ~training => \A i \in 1..Len(call'.dropped) : ~call'.dropped[i]
      ]_vars

C9_Witness ==
    /\ pc = "ready"
    /\ call.kind = "predict"
    /\ call.was_training
    /\ ~training

\* C10: the head is asked to update its precision state in a call if and
\* only if llgp, the call is forward with update_precision True, and the call
\* is not on the variance path (regression with get_var), where only get_var
\* is passed; predict never asks for it, and without the GP head
\* update_precision is not passed to the head at all.
C10_PrecisionRequest ==
    (pc = "ready" /\ IsModelCall) =>
        LET varpath == llgp /\ objective = "regression" /\ call.get_var
        IN  /\ (call.head.up_passed /\ call.head.up) <=>
                  /\ llgp
                  /\ call.kind = "forward"
                  /\ call.update_precision
                  /\ ~varpath
            /\ ~llgp => ~call.head.up_passed
            /\ varpath => ~call.head.up_passed /\ call.head.gv
            /\ call.kind = "predict" => ~call.head.up

C10_Witness ==
    /\ pc = "ready"
    /\ call.kind = "forward"
    /\ llgp
    /\ objective = "regression"
    /\ call.update_precision
    /\ call.get_var
    /\ ~call.head.up_passed
    /\ call.head.gv

(***************************************************************************)
(* SpecConv: ConvLayer and ByteNetBlock on a sequence of length seq_len    *)
(***************************************************************************)
\* line 38: padding = dilation * (kernel_size - 1) // 2
Padding(k, d) == (d * (k - 1)) \div 2

\* torch.nn.Conv1d (lines 39-41, 50), stride 1: the output length is
\* L + 2 * padding - dilation * (kernel_size - 1), and the call raises when
\* the padded input is shorter than the dilated kernel
ConvOutLen(len, k, d, pad) ==
    LET out == len + 2 * pad - d * (k - 1)
    IN  IF out < 1
        THEN [error |-> "RuntimeError: kernel size", len |-> 0]
        ELSE [error |-> "none", len |-> out]

\* lines 130-131: xdata + sequence2(conv(sequence1(xdata))); sequence1 and
\* sequence2 keep the length, and the sum broadcasts a length-1 operand
BlockOutLen(len, k, d, pad) ==
    LET c == ConvOutLen(len, k, d, pad)
    IN  IF c.error # "none" THEN c
        ELSE IF c.len = len \/ c.len = 1 \/ len = 1
        THEN [error |-> "none", len |-> IF c.len > len THEN c.len ELSE len]
        ELSE [error |-> "RuntimeError: size mismatch", len |-> 0]

InitConv ==
    /\ MainIdle
    /\ DilIdle
    /\ cpc = "start"
    /\ kernel_size \in 1..MaxKernel
    /\ dilation \in 1..MaxDilation
    /\ seq_len \in 1..MaxLen
    /\ padding = 0
    /\ conv_out = [error |-> "none", len |-> 0]
    /\ block_out = [error |-> "none", len |-> 0]

\* ConvLayer.__init__ (lines 24-41)
ConvLayerInit ==
    /\ cpc = "start"
    /\ padding' = Padding(kernel_size, dilation)
    /\ cpc' = "init"
    /\ UNCHANGED <<kernel_size, dilation, seq_len, conv_out, block_out,
                   mainVars, dilVars>>

\* ConvLayer.forward (lines 43-50)
ConvLayerForward ==
    /\ cpc = "init"
    /\ conv_out' = ConvOutLen(seq_len, kernel_size, dilation, padding)
    /\ cpc' = "conv"
    /\ UNCHANGED <<kernel_size, dilation, seq_len, padding, block_out,
                   mainVars, dilVars>>

\* ByteNetBlock.forward (lines 123-131), self.conv being the ConvLayer
ByteNetBlockForward ==
    /\ cpc = "init"
    /\ conv_out' = ConvOutLen(seq_len, kernel_size, dilation, padding)
    /\ block_out' = BlockOutLen(seq_len, kernel_size, dilation, padding)
    /\ cpc' = "block"
    /\ UNCHANGED <<kernel_size, dilation, seq_len, padding, mainVars, dilVars>>

NextConv == ConvLayerInit \/ ConvLayerForward \/ ByteNetBlockForward

SpecConv == InitConv /\ [][NextConv]_vars

\* C6 as stated: for stride 1 and every kernel size k >= 1, dilation d >= 1
\* and length L >= 1, ConvLayer returns a sequence of length L, and so does
\* every ByteNetBlock.
C6_SameLength ==
    /\ cpc \in {"conv", "block"} =>
          conv_out.error = "none" /\ conv_out.len = seq_len
    /\ cpc = "block" =>
          block_out.error = "none" /\ block_out.len = seq_len

====
